---- MODULE Spec2Model ----
(***************************************************************************)
(* Model of the Indonesian legal document chunker                          *)
(* (chunker-service/chunker.py).  Python strings are sequences of          *)
(* one-character strings, Optional values are <<>> (None) or <<v>>.        *)
(***************************************************************************)
EXTENDS Integers, Sequences, FiniteSets, TLC

VARIABLES text, max_chunk_size, overlap_size, pc, document_metadata,
          sections, sec_idx, hierarchy_stack, all_chunks, origin,
          content, base_chunk, result,
          job_progress, job_results, tasks, chunkers, running, deleted

vars == <<text, max_chunk_size, overlap_size, pc, document_metadata,
          sections, sec_idx, hierarchy_stack, all_chunks, origin,
          content, base_chunk, result,
          job_progress, job_results, tasks, chunkers, running, deleted>>

\* The state of one chunker object and of one call of chunk_long_content.
chunkVars == <<text, max_chunk_size, overlap_size, pc, document_metadata,
               sections, sec_idx, hierarchy_stack, all_chunks, origin,
               content, base_chunk, result>>

\* The state of the service: the two job stores, the background tasks, the
\* chunker objects they created, the task that holds the event loop, and the
\* job ids deleted since they were last posted.
jobVars == <<job_progress, job_results, tasks, chunkers, running, deleted>>

----------------------------------------------------------------------------
(* Bounds of the model *)

MaxLines == 4

MaxBodyLen == 6

MaxChunkSize == 5

MaxOverlap == 2

----------------------------------------------------------------------------
(* Python values *)

None == <<>>

Some(v) == <<v>>

IsNone(o) == o = <<>>

\* Python truthiness of an Optional[str]: neither None nor "".
Truthy(o) == o # <<>> /\ o[1] # <<>>

\* Python `a or b` on Optional[str] operands.
PyOr(a, b) == IF Truthy(a) THEN a ELSE b

Whitespace == {" ", "\n", "\t", "\r"}

Digits == {"0", "1", "2", "3", "4", "5", "6", "7", "8", "9"}

UpperLetters == {"A", "B", "C", "D", "E", "F", "G", "H", "I", "J", "K", "L", "M",
                 "N", "O", "P", "Q", "R", "S", "T", "U", "V", "W", "X", "Y", "Z"}

LowerLetters == {"a", "b", "c", "d", "e", "f", "g", "h", "i", "j", "k", "l", "m",
                 "n", "o", "p", "q", "r", "s", "t", "u", "v", "w", "x", "y", "z"}

Letters == UpperLetters \cup LowerLetters

ToUpperMap == [a |-> "A", b |-> "B", c |-> "C", d |-> "D", e |-> "E", f |-> "F",
               g |-> "G", h |-> "H", i |-> "I", j |-> "J", k |-> "K", l |-> "L",
               m |-> "M", n |-> "N", o |-> "O", p |-> "P", q |-> "Q", r |-> "R",
               s |-> "S", t |-> "T", u |-> "U", v |-> "V", w |-> "W", x |-> "X",
               y |-> "Y", z |-> "Z"]

\* Case folding used by re.IGNORECASE on ASCII text.
Upper(c) == IF c \in LowerLetters THEN ToUpperMap[c] ELSE c

RECURSIVE LStrip(_)
LStrip(s) == IF s # <<>> /\ Head(s) \in Whitespace THEN LStrip(Tail(s)) ELSE s

RECURSIVE RStrip(_)
RStrip(s) == IF s # <<>> /\ s[Len(s)] \in Whitespace
             THEN RStrip(SubSeq(s, 1, Len(s) - 1)) ELSE s

\* str.strip()
Strip(s) == RStrip(LStrip(s))

\* First index at which the literal sep occurs in s, 0 when it does not.
Find(s, sep) ==
    LET hits == {i \in 1..(Len(s) - Len(sep) + 1) : SubSeq(s, i, i + Len(sep) - 1) = sep}
    IN IF hits = {} THEN 0 ELSE CHOOSE i \in hits : \A j \in hits : i <= j

\* str.split(sep) for a non-empty literal separator.
RECURSIVE Split(_, _)
Split(s, sep) ==
    LET i == Find(s, sep)
    IN IF i = 0 THEN <<s>>
       ELSE <<SubSeq(s, 1, i - 1)>> \o Split(SubSeq(s, i + Len(sep), Len(s)), sep)

\* sep.join(parts)
RECURSIVE Join(_, _)
Join(parts, sep) ==
    IF parts = <<>> THEN <<>>
    ELSE IF Len(parts) = 1 THEN parts[1]
    ELSE parts[1] \o sep \o Join(Tail(parts), sep)

\* str(n) for a natural number.
DigitOf == [d \in 0..9 |-> CASE d = 0 -> "0" [] d = 1 -> "1" [] d = 2 -> "2"
                             [] d = 3 -> "3" [] d = 4 -> "4" [] d = 5 -> "5"
                             [] d = 6 -> "6" [] d = 7 -> "7" [] d = 8 -> "8"
                             [] d = 9 -> "9"]

RECURSIVE IntToStr(_)
IntToStr(n) == IF n < 10 THEN <<DigitOf[n]>>
               ELSE IntToStr(n \div 10) \o <<DigitOf[n % 10]>>

\* str(x) of an Optional[str] inside an f-string.
OptToStr(o) == IF IsNone(o) THEN <<"N", "o", "n", "e">> ELSE o[1]

\* s[-2:] on a list
LastTwo(l) == IF Len(l) <= 2 THEN l ELSE SubSeq(l, Len(l) - 1, Len(l))

\* End (exclusive) of the greedy run of characters of cls starting at i.
RunEnd(s, i, cls) ==
    CHOOSE j \in i..(Len(s) + 1) :
        /\ \A k \in i..(j - 1) : s[k] \in cls
        /\ (j = Len(s) + 1 \/ s[j] \notin cls)

\* Case-insensitive literal prefix.
HasPrefixCI(s, lit) ==
    /\ Len(s) >= Len(lit)
    /\ \A i \in 1..Len(lit) : Upper(s[i]) = lit[i]

----------------------------------------------------------------------------
(* dict access *)

\* d.get(key): None when the key is absent.
Get(d, key) == IF key \in DOMAIN d THEN d[key] ELSE None

\* d.get(key, default): the default only when the key is absent.
GetDefault(d, key, default) == IF key \in DOMAIN d THEN d[key] ELSE default

----------------------------------------------------------------------------
(* Structure classifier: identify_structure_level *)

RomanClass == {"I", "V", "X", "i", "v", "x"}

LAMPIRAN == <<"L", "A", "M", "P", "I", "R", "A", "N">>

BAB == <<"B", "A", "B">>

BAGIAN == <<"B", "A", "G", "I", "A", "N">>

PASAL == <<"P", "A", "S", "A", "L">>

\* word \s+ [cls]+ \s* (and $ when anchored), matched at the start of s with
\* re.IGNORECASE.  The value is the end of group 1, 0 when there is no match.
MatchMajor(s, word, cls, anchored) ==
    IF ~HasPrefixCI(s, word) THEN 0
    ELSE LET a == RunEnd(s, Len(word) + 1, Whitespace)
             b == RunEnd(s, a, cls)
             c == RunEnd(s, b, Whitespace)
         IN IF a > Len(word) + 1 /\ b > a /\ (anchored => c = Len(s) + 1)
            THEN b - 1 ELSE 0

\* ^(Pasal\s+\d+)\s*$ and, with suffix, ^(Pasal\s+\d+[a-z]?)\s*$
MatchPasal(s, suffix) ==
    IF ~HasPrefixCI(s, PASAL) THEN 0
    ELSE LET a == RunEnd(s, Len(PASAL) + 1, Whitespace)
             b == RunEnd(s, a, Digits)
             b2 == IF suffix /\ b <= Len(s) /\ s[b] \in Letters THEN b + 1 ELSE b
             c == RunEnd(s, b2, Whitespace)
         IN IF a > Len(PASAL) + 1 /\ b > a /\ c = Len(s) + 1
            THEN b2 - 1 ELSE 0

NotStructural == [level |-> 0, section_number |-> None, title |-> None, chunk_type |-> None]

MajorSection(title) ==
    [level |-> 2, section_number |-> None, title |-> Some(title),
     chunk_type |-> Some("major_section")]

PasalSection(number) ==
    [level |-> 3, section_number |-> Some(number), title |-> Some(number),
     chunk_type |-> Some("pasal")]

identify_structure_level(rawline) ==
    LET line == Strip(rawline)
        m1 == MatchMajor(line, LAMPIRAN, RomanClass, TRUE)
        m2 == MatchMajor(line, BAB, RomanClass, FALSE)
        m3 == MatchMajor(line, BAGIAN, Letters, FALSE)
        p1 == MatchPasal(line, FALSE)
        p2 == MatchPasal(line, TRUE)
    IN IF line = <<>> THEN NotStructural
       ELSE IF m1 > 0 THEN MajorSection(SubSeq(line, 1, m1))
       ELSE IF m2 > 0 THEN MajorSection(SubSeq(line, 1, m2))
       ELSE IF m3 > 0 THEN MajorSection(SubSeq(line, 1, m3))
       ELSE IF p1 > 0 THEN PasalSection(SubSeq(line, 1, p1))
       ELSE IF p2 > 0 THEN PasalSection(SubSeq(line, 1, p2))
       ELSE NotStructural

----------------------------------------------------------------------------
(* Section splitter: split_into_sections *)

NL == <<"\n">>

\* The section dict opened at a structural line i (0-based).
NewSection(cls, line, i) ==
    [level |-> cls.level,
     title |-> IF Truthy(cls.title) THEN cls.title[1] ELSE Strip(line),
     section_number |-> cls.section_number,
     chunk_type |-> cls.chunk_type,
     start_position |-> i,
     raw_line |-> line]

\* The two keys written when a section is closed.
CloseSection(current_section, current_content, endpos) ==
    [content |-> Strip(Join(current_content, NL)), end_position |-> endpos]
        @@ current_section

\* Variant of LastSection that leaves the open section out.
LastSection_Dropped(secs, current_section, current_content, n) == secs

\* The section still open when the loop over the lines ends is closed at the
\* last line index and appended.
LastSection(secs, current_section, current_content, n) ==
    IF ~IsNone(current_section)
    THEN Append(secs, CloseSection(current_section[1], current_content, n - 1))
    ELSE secs

\* The loop over enumerate(lines); current_section is Optional.
RECURSIVE SplitLoop(_, _, _, _, _)
SplitLoop(lines, i, secs, current_section, current_content) ==
    IF i >= Len(lines)
    THEN LastSection(secs, current_section, current_content, Len(lines))
    ELSE LET line == lines[i + 1]
             cls == identify_structure_level(line)
         IN IF cls.level > 0
            THEN SplitLoop(lines, i + 1,
                           IF ~IsNone(current_section)
                           THEN Append(secs, CloseSection(current_section[1], current_content, i - 1))
                           ELSE secs,
                           Some(NewSection(cls, line, i)), <<>>)
            ELSE SplitLoop(lines, i + 1, secs, current_section,
                           IF Strip(line) # <<>> THEN Append(current_content, line)
                           ELSE current_content)

split_into_sections(t) == SplitLoop(Split(t, NL), 0, <<>>, None, <<>>)

----------------------------------------------------------------------------
(* Hierarchy builder: establish_hierarchy *)

\* Variant of PopCond that keeps siblings on the stack.
PopCond_StrictOnly(top_level, level) == top_level > level

\* The test of the while loop that pops the stack.
PopCond(top_level, level) == top_level >= level

RECURSIVE PopStack(_, _)
PopStack(stack, level) ==
    IF stack # <<>> /\ PopCond(stack[Len(stack)].level, level)
    THEN PopStack(SubSeq(stack, 1, Len(stack) - 1), level)
    ELSE stack

\* The three parent keys written into a section, given the popped stack.
ParentFields(stack) ==
    IF stack # <<>>
    THEN LET parent == stack[Len(stack)]
         IN [parent_section |-> PyOr(Get(parent, "section_number"),
                                     Some(Get(parent, "title"))),
             parent_title |-> Some(parent.title),
             parent_type |-> Get(parent, "chunk_type")]
    ELSE [parent_section |-> None, parent_title |-> None, parent_type |-> None]

\* Variant of WithParent that looks the parent up after pushing the section.
WithParent_Self(stack, section) == ParentFields(<<section>>) @@ section

\* The section after its parent keys are set from the popped stack.
WithParent(stack, section) == ParentFields(PopStack(stack, section.level)) @@ section

----------------------------------------------------------------------------
(* Metadata extractor and the level-1 chunk *)

TAHUN == <<"T", "A", "H", "U", "N">>

NOMOR == <<"N", "O", "M", "O", "R">>

MENTERI == <<"M", "E", "N", "T", "E", "R", "I">>

MEMUTUSKAN == <<"M", "E", "M", "U", "T", "U", "S", "K", "A", "N", ":">>

\* Case-insensitive literal at position i of s.
HasLitCIAt(s, i, lit) ==
    /\ i + Len(lit) - 1 <= Len(s)
    /\ \A k \in 1..Len(lit) : Upper(s[i + k - 1]) = lit[k]

\* \d{4} at position i of s.
FourDigitsAt(s, i) == i + 3 <= Len(s) /\ \A k \in i..(i + 3) : s[k] \in Digits

\* TAHUN\s+(\d{4}) matched at position i: the start of group 1, 0 for no match.
MatchTahunAt(s, i) ==
    IF ~HasLitCIAt(s, i, TAHUN) THEN 0
    ELSE LET a == RunEnd(s, i + Len(TAHUN), Whitespace)
         IN IF a > i + Len(TAHUN) /\ FourDigitsAt(s, a) THEN a ELSE 0

\* NOMOR\s+(\d+\s+TAHUN\s+\d{4}) matched at position i: <<start, end>> of
\* group 1, <<0, 0>> for no match.
MatchNomorAt(s, i) ==
    IF ~HasLitCIAt(s, i, NOMOR) THEN <<0, 0>>
    ELSE LET a == RunEnd(s, i + Len(NOMOR), Whitespace)
             b == RunEnd(s, a, Digits)
             c == RunEnd(s, b, Whitespace)
             y == MatchTahunAt(s, c)
         IN IF a > i + Len(NOMOR) /\ b > a /\ c > b /\ y > 0
            THEN <<a, y + 3>> ELSE <<0, 0>>

\* re.search: the leftmost of the positions at which the pattern matches, 0 for none.
FirstMatch(hits) ==
    IF hits = {} THEN 0 ELSE CHOOSE i \in hits : \A j \in hits : i <= j

EmptyDict == [k \in {} |-> <<>>]

nomor_scan(t) ==
    LET i == FirstMatch({k \in 1..Len(t) : MatchNomorAt(t, k)[1] > 0})
    IN IF i > 0
       THEN [nomor |-> Strip(SubSeq(t, MatchNomorAt(t, i)[1], MatchNomorAt(t, i)[2]))]
       ELSE EmptyDict

tahun_scan(t) ==
    LET i == FirstMatch({k \in 1..Len(t) : MatchTahunAt(t, k) > 0})
    IN IF i > 0
       THEN [tahun |-> Strip(SubSeq(t, MatchTahunAt(t, i), MatchTahunAt(t, i) + 3))]
       ELSE EmptyDict

memutuskan_scan(t) ==
    IF FirstMatch({k \in 1..Len(t) : HasLitCIAt(t, k, MEMUTUSKAN)}) > 0
    THEN [memutuskan |-> MEMUTUSKAN] ELSE EmptyDict

document_type_scan(t) ==
    [document_type |-> IF Find(t, MENTERI) > 0
                       THEN <<"P", "e", "r", "a", "t", "u", "r", "a", "n", " ",
                              "M", "e", "n", "t", "e", "r", "i">>
                       ELSE <<"P", "e", "r", "a", "t", "u", "r", "a", "n">>]

\* The record built by the scans for number, year, decision marker and type.
\* The scans for judul, tentang, menimbang, mengingat, menetapkan and the
\* signing block each need a marker word (PERATURAN, TENTANG, Menimbang,
\* Mengingat, Menetapkan, Ditetapkan di) that no line of LineSet or Headers
\* contains, so on these documents they add no key to the record.
extract_metadata(t) ==
    nomor_scan(t) @@ tahun_scan(t) @@ memutuskan_scan(t) @@ document_type_scan(t)

\* Variant of HasField that only asks for the key.
HasField_KeyOnly(md, key) == key \in DOMAIN md

\* Truthiness of md.get(key).
HasField(md, key) == key \in DOMAIN md /\ md[key] # <<>>

\* One "  {point}. {text}" line per item of a list field.
RECURSIVE ItemLines(_)
ItemLines(items) ==
    IF items = <<>> THEN <<>>
    ELSE <<(<<" ", " ">> \o items[1].point \o <<".", " ">> \o items[1].text)>>
         \o ItemLines(Tail(items))

Labeled(label, value) == label \o <<":", " ">> \o value

metadata_content(md) ==
    (IF HasField(md, "judul") THEN <<Labeled(<<"J", "u", "d", "u", "l">>, md["judul"])>> ELSE <<>>)
    \o (IF HasField(md, "nomor") THEN <<Labeled(<<"N", "o", "m", "o", "r">>, md["nomor"])>> ELSE <<>>)
    \o (IF HasField(md, "tahun") THEN <<Labeled(<<"T", "a", "h", "u", "n">>, md["tahun"])>> ELSE <<>>)
    \o (IF HasField(md, "tentang")
        THEN <<Labeled(<<"T", "e", "n", "t", "a", "n", "g">>, md["tentang"])>> ELSE <<>>)
    \o (IF HasField(md, "menimbang")
        THEN <<(<<"\n", "M", "e", "n", "i", "m", "b", "a", "n", "g", ":">>)>>
             \o ItemLines(md["menimbang"])
        ELSE <<>>)
    \o (IF HasField(md, "mengingat")
        THEN <<(<<"\n", "M", "e", "n", "g", "i", "n", "g", "a", "t", ":">>)>>
             \o ItemLines(md["mengingat"])
        ELSE <<>>)

create_metadata_chunk(md) ==
    [level |-> 1,
     title |-> <<"M", "e", "t", "a", "d", "a", "t", "a", " ",
                 "D", "o", "k", "u", "m", "e", "n">>,
     content |-> Join(metadata_content(md), NL),
     section_number |-> None,
     parent_section |-> None,
     chunk_type |-> Some("metadata"),
     start_position |-> 0,
     end_position |-> 0,
     chunk_id |-> <<"m", "e", "t", "a", "d", "a", "t", "a">>,
     metadata |-> md]

----------------------------------------------------------------------------
(* Content chunker: chunk_long_content *)

SentencePunct == {".", "!", "?", ";"}

PeriodSpace == <<".", " ">>

\* First position matched by (?<=[.!?;])\s+ in s, 0 for none.
SentenceBreak(s) ==
    LET hits == {i \in 2..Len(s) : s[i] \in Whitespace /\ s[i - 1] \in SentencePunct}
    IN IF hits = {} THEN 0 ELSE CHOOSE i \in hits : \A j \in hits : i <= j

\* re.split(r'(?<=[.!?;])\s+', s)
RECURSIVE SplitSentences(_)
SplitSentences(s) ==
    LET i == SentenceBreak(s)
    IN IF i = 0 THEN <<s>>
       ELSE <<SubSeq(s, 1, i - 1)>>
            \o SplitSentences(SubSeq(s, RunEnd(s, i, Whitespace), Len(s)))

\* Variant of FitsWhole that sends a body of exactly max characters to the split.
FitsWhole_Strict(body, max) == Len(body) < max

\* The test that selects the single-chunk path.
FitsWhole(body, max) == Len(body) <= max

\* The chunk returned by the single-chunk path.
WholeChunk(body, base, md) ==
    [level |-> base.level,
     title |-> base.title,
     content |-> body,
     section_number |-> base.section_number,
     parent_section |-> Get(base, "parent_section"),
     chunk_type |-> Get(base, "chunk_type"),
     start_position |-> base.start_position,
     end_position |-> base.end_position,
     chunk_id |-> <<>>,
     metadata |-> md]

\* f"{title} (Bagian {n})"
PartTitle(title, n) ==
    title \o <<" ", "(", "B", "a", "g", "i", "a", "n", " ">> \o IntToStr(n) \o <<")">>

\* f"{base_chunk.get('section_number', 'chunk')}_{chunk_count}"
ChunkId(base, n) ==
    OptToStr(GetDefault(base, "section_number", Some(<<"c", "h", "u", "n", "k">>)))
        \o <<"_">> \o IntToStr(n)

\* A chunk built on the split path.
PartChunk(base, title, body, n, md) ==
    [level |-> base.level,
     title |-> title,
     content |-> Strip(body),
     section_number |-> base.section_number,
     parent_section |-> Get(base, "parent_section"),
     chunk_type |-> Get(base, "chunk_type"),
     start_position |-> 0,
     end_position |-> 0,
     chunk_id |-> ChunkId(base, n),
     metadata |-> md]

\* Variant of NextSeed whose overlap seed leaves the triggering sentence out.
NextSeed_DropSentence(current_chunk, sentence, overlap) ==
    IF overlap > 0
    THEN Join(LastTwo(Split(current_chunk, PeriodSpace)), PeriodSpace)
    ELSE sentence

\* Variant of NextSeed that restarts from an empty buffer when overlap is off.
NextSeed_Restart(current_chunk, sentence, overlap) ==
    IF overlap > 0
    THEN Join(LastTwo(Split(current_chunk, PeriodSpace)), PeriodSpace)
             \o PeriodSpace \o sentence
    ELSE <<>>

\* The buffer that starts the next chunk after one was closed.
NextSeed(current_chunk, sentence, overlap) ==
    IF overlap > 0
    THEN Join(LastTwo(Split(current_chunk, PeriodSpace)), PeriodSpace)
             \o PeriodSpace \o sentence
    ELSE sentence

\* Variant of LastTitle that suffixes a lone chunk too.
LastTitle_AlwaysPart(base, n) == PartTitle(base.title, n)

\* The title of the chunk flushed after the loop.
LastTitle(base, n) == IF n > 1 THEN PartTitle(base.title, n) ELSE base.title

\* One iteration of the loop over the sentences.
SentenceStep(st, sentence, base, max, overlap, md) ==
    IF Len(st.current_chunk) + Len(sentence) > max /\ st.current_chunk # <<>>
    THEN LET n == st.chunk_count + 1
         IN [current_chunk |-> NextSeed(st.current_chunk, sentence, overlap),
             chunk_count |-> n,
             chunks |-> Append(st.chunks,
                               PartChunk(base, PartTitle(base.title, n),
                                         st.current_chunk, n, md))]
    ELSE [st EXCEPT !.current_chunk =
                        IF @ # <<>> THEN @ \o <<" ">> \o sentence ELSE sentence]

RECURSIVE SentenceLoop(_, _, _, _, _, _)
SentenceLoop(st, sentences, base, max, overlap, md) ==
    IF sentences = <<>> THEN st
    ELSE SentenceLoop(SentenceStep(st, Head(sentences), base, max, overlap, md),
                      Tail(sentences), base, max, overlap, md)

\* The flush of the last buffer.
FlushLast(st, base, md) ==
    IF Strip(st.current_chunk) # <<>>
    THEN LET n == st.chunk_count + 1
         IN Append(st.chunks, PartChunk(base, LastTitle(base, n), st.current_chunk, n, md))
    ELSE st.chunks

chunk_long_content(body, base, max, overlap, md) ==
    IF FitsWhole(body, max)
    THEN <<WholeChunk(body, base, md)>>
    ELSE FlushLast(SentenceLoop([current_chunk |-> <<>>, chunk_count |-> 0, chunks |-> <<>>],
                                SplitSentences(body), base, max, overlap, md),
                   base, md)

----------------------------------------------------------------------------
(* Chunk assembler: chunk_document, one step per stage and per section *)

\* Variant of FirstChunks that starts from an empty list.
FirstChunks_Empty(md) == <<>>

\* all_chunks = [self.create_metadata_chunk()]
FirstChunks(md) == <<create_metadata_chunk(md)>>

\* if section['content']
HasContent(section) == section.content # <<>>

\* Variant of Extend that inserts right after the first chunk.
Extend_AfterFirst(chunks, section_chunks) ==
    IF chunks = <<>> THEN section_chunks
    ELSE <<Head(chunks)>> \o section_chunks \o Tail(chunks)

\* all_chunks.extend(section_chunks)
Extend(chunks, section_chunks) == chunks \o section_chunks

\* Lines a document is drawn from.
L_BAB == <<"B", "A", "B", " ", "I">>

L_LAMPIRAN == <<"L", "A", "M", "P", "I", "R", "A", "N", " ", "I">>

L_PASAL == <<"P", "a", "s", "a", "l", " ", "1">>

L_BLANK == <<>>

L_TEXT == <<"a", ".", " ", "b">>

L_CLAUSE == <<"c", "c", ";">>

LineSet == {L_BAB, L_LAMPIRAN, L_PASAL, L_BLANK, L_TEXT, L_CLAUSE}

\* Optional first line of a document, carrying its number and year.
L_NOMOR == <<"N", "O", "M", "O", "R", " ", "7", " ",
             "T", "A", "H", "U", "N", " ", "2", "0", "2", "0">>

Headers == {<<>>, <<L_NOMOR>>}

Texts == {Join(h \o ls, NL) :
              h \in Headers, ls \in UNION {[1..n -> LineSet] : n \in 1..MaxLines}}

Sizes == {2, MaxChunkSize}

Overlaps == {0, MaxOverlap}

\* No request has reached the service.
NoJobs ==
    /\ job_progress = EmptyDict
    /\ job_results = EmptyDict
    /\ tasks = EmptyDict
    /\ chunkers = EmptyDict
    /\ running = None
    /\ deleted = {}

Init ==
    /\ NoJobs
    /\ text \in Texts
    /\ max_chunk_size \in Sizes
    /\ overlap_size \in Overlaps
    /\ pc = "extract"
    /\ document_metadata = EmptyDict
    /\ sections = <<>>
    /\ sec_idx = 0
    /\ hierarchy_stack = <<>>
    /\ all_chunks = <<>>
    /\ origin = <<>>
    /\ content = <<>>
    /\ base_chunk = EmptyDict
    /\ result = <<>>

ExtractMetadata ==
    /\ pc = "extract"
    /\ document_metadata' = extract_metadata(text)
    /\ pc' = "metadata_chunk"
    /\ UNCHANGED <<text, max_chunk_size, overlap_size, sections, sec_idx,
                   hierarchy_stack, all_chunks, origin, content, base_chunk, result>>
    /\ UNCHANGED jobVars

CreateMetadataChunk ==
    /\ pc = "metadata_chunk"
    /\ all_chunks' = FirstChunks(document_metadata)
    /\ origin' = [k \in 1..Len(all_chunks') |-> 0]
    /\ pc' = "split"
    /\ UNCHANGED <<text, max_chunk_size, overlap_size, document_metadata, sections,
                   sec_idx, hierarchy_stack, content, base_chunk, result>>
    /\ UNCHANGED jobVars

SplitIntoSections ==
    /\ pc = "split"
    /\ sections' = split_into_sections(text)
    /\ sec_idx' = 1
    /\ hierarchy_stack' = <<>>
    /\ pc' = "hierarchy"
    /\ UNCHANGED <<text, max_chunk_size, overlap_size, document_metadata,
                   all_chunks, origin, content, base_chunk, result>>
    /\ UNCHANGED jobVars

\* One iteration of the loop of establish_hierarchy.
EstablishHierarchyStep ==
    /\ pc = "hierarchy"
    /\ sec_idx <= Len(sections)
    /\ LET section == sections[sec_idx]
           updated == WithParent(hierarchy_stack, section)
       IN /\ sections' = [sections EXCEPT ![sec_idx] = updated]
          /\ hierarchy_stack' = Append(PopStack(hierarchy_stack, section.level), updated)
    /\ sec_idx' = sec_idx + 1
    /\ UNCHANGED <<text, max_chunk_size, overlap_size, pc, document_metadata,
                   all_chunks, origin, content, base_chunk, result>>
    /\ UNCHANGED jobVars

EstablishHierarchyReturn ==
    /\ pc = "hierarchy"
    /\ sec_idx > Len(sections)
    /\ hierarchy_stack' = <<>>
    /\ sec_idx' = 1
    /\ pc' = "chunk"
    /\ UNCHANGED <<text, max_chunk_size, overlap_size, document_metadata, sections,
                   all_chunks, origin, content, base_chunk, result>>
    /\ UNCHANGED jobVars

\* One iteration of the loop over the sections, for a section with content.
ChunkSection ==
    /\ pc = "chunk"
    /\ sec_idx <= Len(sections)
    /\ HasContent(sections[sec_idx])
    /\ LET section == sections[sec_idx]
           section_chunks == chunk_long_content(section.content, section, max_chunk_size,
                                                overlap_size, document_metadata)
       IN /\ all_chunks' = Extend(all_chunks, section_chunks)
          /\ origin' = Extend(origin, [k \in 1..Len(section_chunks) |-> sec_idx])
    /\ sec_idx' = sec_idx + 1
    /\ UNCHANGED <<text, max_chunk_size, overlap_size, pc, document_metadata, sections,
                   hierarchy_stack, content, base_chunk, result>>
    /\ UNCHANGED jobVars

\* One iteration of the loop over the sections, for a section without content.
SkipSection ==
    /\ pc = "chunk"
    /\ sec_idx <= Len(sections)
    /\ ~HasContent(sections[sec_idx])
    /\ sec_idx' = sec_idx + 1
    /\ UNCHANGED <<text, max_chunk_size, overlap_size, pc, document_metadata, sections,
                   hierarchy_stack, all_chunks, origin, content, base_chunk, result>>
    /\ UNCHANGED jobVars

ReturnChunks ==
    /\ pc = "chunk"
    /\ sec_idx > Len(sections)
    /\ pc' = "done"
    /\ UNCHANGED <<text, max_chunk_size, overlap_size, document_metadata, sections,
                   sec_idx, hierarchy_stack, all_chunks, origin, content, base_chunk,
                   result>>
    /\ UNCHANGED jobVars

Next ==
    \/ ExtractMetadata
    \/ CreateMetadataChunk
    \/ SplitIntoSections
    \/ EstablishHierarchyStep
    \/ EstablishHierarchyReturn
    \/ ChunkSection
    \/ SkipSection
    \/ ReturnChunks

Spec == Init /\ [][Next]_vars

----------------------------------------------------------------------------
(* chunk_long_content called on one section *)

BodyChars == {"a", ".", ";", " ", "\n"}

\* A body as split_into_sections builds it: trimmed, not empty, no blank line.
IsBody(b) ==
    /\ b # <<>>
    /\ Strip(b) = b
    /\ \A i \in 1..Len(Split(b, NL)) : Strip(Split(b, NL)[i]) # <<>>

Bodies == {b \in UNION {[1..n -> BodyChars] : n \in 1..MaxBodyLen} : IsBody(b)}

\* A chapter heading at line 0 with the given body, after establish_hierarchy.
MajorBase(body) ==
    [level |-> 2, title |-> L_BAB, section_number |-> None,
     chunk_type |-> Some("major_section"), start_position |-> 0, raw_line |-> L_BAB,
     content |-> body, end_position |-> Len(Split(body, NL)),
     parent_section |-> None, parent_title |-> None, parent_type |-> None]

\* An article heading at line 1 under that chapter, with the given body.
PasalBase(body) ==
    [level |-> 3, title |-> L_PASAL, section_number |-> Some(L_PASAL),
     chunk_type |-> Some("pasal"), start_position |-> 1, raw_line |-> L_PASAL,
     content |-> body, end_position |-> 1 + Len(Split(body, NL)),
     parent_section |-> Some(L_BAB), parent_title |-> Some(L_BAB),
     parent_type |-> Some("major_section")]

InitCLC ==
    /\ NoJobs
    /\ content \in Bodies
    /\ base_chunk \in {MajorBase(content), PasalBase(content)}
    /\ max_chunk_size \in 1..MaxChunkSize
    /\ overlap_size \in 0..MaxOverlap
    /\ pc = "clc_call"
    /\ document_metadata = EmptyDict
    /\ result = <<>>
    /\ text = <<>>
    /\ sections = <<>>
    /\ sec_idx = 0
    /\ hierarchy_stack = <<>>
    /\ all_chunks = <<>>
    /\ origin = <<>>

ChunkLongContent ==
    /\ pc = "clc_call"
    /\ result' = chunk_long_content(content, base_chunk, max_chunk_size, overlap_size,
                                    document_metadata)
    /\ pc' = "clc_done"
    /\ UNCHANGED <<text, max_chunk_size, overlap_size, document_metadata, sections,
                   sec_idx, hierarchy_stack, all_chunks, origin, content, base_chunk>>
    /\ UNCHANGED jobVars

NextCLC == ChunkLongContent

SpecCLC == InitCLC /\ [][NextCLC]_vars

----------------------------------------------------------------------------
(* Properties of chunk_document *)

Returned == pc = "done"

SectionChunks == 2..Len(all_chunks)

\* The indices of the chunks that came from section s, in output order.
ChunksOf(s) == {k \in SectionChunks : origin[k] = s}

\* C1: the sequence returned by chunk_document holds exactly one level-1 chunk,
\* at index 0 (the first), and every other chunk has level 2 or 3.
C1_OneMetadataChunkFirst ==
    Returned =>
        /\ Len(all_chunks) >= 1
        /\ all_chunks[1].level = 1
        /\ \A k \in SectionChunks : all_chunks[k].level \in {2, 3}

C1_Witness ==
    /\ Returned
    /\ \E k \in SectionChunks : all_chunks[k].level = 2
    /\ \E k \in SectionChunks : all_chunks[k].level = 3

\* C2 as stated: the parent_section of every level-2/3 chunk is empty or is the
\* section_number or title of a chunk emitted earlier in the output.
C2_ParentIsEarlierChunk ==
    Returned =>
        \A k \in SectionChunks :
            \/ IsNone(all_chunks[k].parent_section)
            \/ \E j \in 1..(k - 1) :
                   \/ all_chunks[k].parent_section = all_chunks[j].section_number
                   \/ all_chunks[k].parent_section = Some(all_chunks[j].title)

\* C2 amended: the parent_section of every level-2/3 chunk is empty or is the
\* section_number or title of a section whose heading precedes the chunk's own
\* section in the text, whether or not that section produced a chunk.
C2_ParentIsEarlierSection ==
    Returned =>
        \A k \in SectionChunks :
            \/ IsNone(all_chunks[k].parent_section)
            \/ \E s \in 1..(origin[k] - 1) :
                   \/ all_chunks[k].parent_section = sections[s].section_number
                   \/ all_chunks[k].parent_section = Some(sections[s].title)

\* A chunk names a parent whose heading had no body and produced no chunk.
C2_Witness ==
    /\ Returned
    /\ \E k \in SectionChunks :
           /\ ~IsNone(all_chunks[k].parent_section)
           /\ \E s \in 1..(origin[k] - 1) :
                  /\ all_chunks[k].parent_section = Some(sections[s].title)
                  /\ sections[s].content = <<>>
                  /\ ChunksOf(s) = {}

\* body ends with the sentence-like unit u
EndsWith(body, u) ==
    Len(body) >= Len(u) /\ SubSeq(body, Len(body) - Len(u) + 1, Len(body)) = u

\* The least unit index above lo at which body ends, 0 when there is none.
EndUnit(body, units, lo) ==
    LET hits == {e \in (lo + 1)..Len(units) : EndsWith(body, units[e])}
    IN IF hits = {} THEN 0 ELSE CHOOSE e \in hits : \A f \in hits : e <= f

\* The chunks cs (a sequence of chunk indices) end at increasing units of the body.
RECURSIVE InBodyOrder(_, _, _)
InBodyOrder(cs, units, lo) ==
    IF cs = <<>> THEN TRUE
    ELSE IF Len(cs) = 1 THEN lo < Len(units) /\ EndsWith(all_chunks[cs[1]].content, units[Len(units)])
    ELSE LET e == EndUnit(all_chunks[cs[1]].content, units, lo)
         IN e > 0 /\ InBodyOrder(Tail(cs), units, e)

\* The members of a set of chunk indices as an increasing sequence.
RECURSIVE Ascending(_)
Ascending(S) ==
    IF S = {} THEN <<>>
    ELSE LET m == CHOOSE x \in S : \A y \in S : x <= y
         IN <<m>> \o Ascending(S \ {m})

\* C3: after the metadata chunk the output is the concatenation, in section
\* discovery order, of the chunks of each section with a non-empty trimmed body:
\* one section's chunks are contiguous and in body order, an earlier section's
\* chunks precede a later section's, an empty-bodied section contributes none.
C3_OutputInSectionOrder ==
    Returned =>
        /\ Len(all_chunks) >= 1 /\ origin[1] = 0
        /\ \A k \in SectionChunks : origin[k] \in 1..Len(sections)
        /\ \A k \in SectionChunks : \A j \in SectionChunks : j < k => origin[j] <= origin[k]
        /\ \A s \in 1..Len(sections) :
               /\ (ChunksOf(s) # {}) <=> (Strip(sections[s].content) # <<>>)
               /\ InBodyOrder(Ascending(ChunksOf(s)), SplitSentences(sections[s].content), 0)

\* Two sections with a body, the first of them split into several chunks.
C3_Witness ==
    /\ Returned
    /\ \E s \in 1..Len(sections), t \in 1..Len(sections) :
           /\ s < t
           /\ Cardinality(ChunksOf(s)) >= 2
           /\ ChunksOf(t) # {}

\* The number of structural lines of the text.
HeadingCount ==
    LET lines == Split(text, NL)
    IN Cardinality({i \in 1..Len(lines) : identify_structure_level(lines[i]).level > 0})

\* C4: N >= 0 structural headings, each followed by a non-empty body of length
\* <= max_chunk_size, give exactly N+1 chunks, the first of level 1; a document
\* without structural marker gives exactly one chunk.
C4_OneChunkPerShortSection ==
    Returned =>
        ((\A s \in 1..Len(sections) :
              sections[s].content # <<>> /\ Len(sections[s].content) <= max_chunk_size)
         => /\ Len(all_chunks) = HeadingCount + 1
            /\ all_chunks[1].level = 1)

C4_Witness ==
    /\ Returned
    /\ HeadingCount = 2
    /\ \A s \in 1..Len(sections) :
           sections[s].content # <<>> /\ Len(sections[s].content) <= max_chunk_size
    /\ Len(all_chunks) = 3

\* The nearest section before i with a strictly smaller level, 0 when none.
NearestShallower(i) ==
    LET cands == {j \in 1..(i - 1) : sections[j].level < sections[i].level}
    IN IF cands = {} THEN 0 ELSE CHOOSE j \in cands : \A h \in cands : h <= j

HierarchyDone == pc \in {"chunk", "done"}

\* C5: after establish_hierarchy each section's parent is the nearest preceding
\* section of strictly smaller level, or none: parent_section is that heading's
\* title and parent_title/parent_type are its title and type.
C5_ParentIsNearestShallower ==
    HierarchyDone =>
        \A i \in 1..Len(sections) :
            LET p == NearestShallower(i)
            IN IF p = 0
               THEN /\ IsNone(sections[i].parent_section)
                    /\ IsNone(sections[i].parent_title)
                    /\ IsNone(sections[i].parent_type)
               ELSE /\ sections[i].parent_section = Some(sections[p].title)
                    /\ sections[i].parent_title = Some(sections[p].title)
                    /\ sections[i].parent_type = sections[p].chunk_type

\* An article under the second of two major sections, after an earlier article.
C5_Witness ==
    /\ HierarchyDone
    /\ \E i \in 1..Len(sections) :
           /\ sections[i].level = 3
           /\ NearestShallower(i) > 1
           /\ \E j \in 1..(i - 1) : sections[j].level = 3
           /\ sections[i].parent_section = Some(sections[NearestShallower(i)].title)

----------------------------------------------------------------------------
(* Properties of chunk_long_content *)

Chunked == pc = "clc_done"

\* C6: a body no longer than max_chunk_size gives exactly one chunk, holding the
\* whole body, the section's unmodified title and an empty chunk_id, whatever
\* overlap_size is.
C6_ShortBodyOneChunk ==
    (Chunked /\ Len(content) <= max_chunk_size) =>
        /\ Len(result) = 1
        /\ result[1].content = content
        /\ result[1].title = base_chunk.title
        /\ result[1].chunk_id = <<>>

\* A body of exactly max_chunk_size characters with several units, overlap on.
C6_Witness ==
    /\ Chunked
    /\ Len(content) = max_chunk_size
    /\ overlap_size > 0
    /\ Len(SplitSentences(content)) >= 2
    /\ Len(result) = 1

\* C7 as stated: a section that yields exactly one chunk gives it an empty
\* chunk_id, also when its body is longer than max_chunk_size.
C7_SingleChunkHasNoId ==
    (Chunked /\ Len(result) = 1) => result[1].chunk_id = <<>>

\* C8 as stated: when a section is split, its j-th chunk has chunk_id
\* '<section_number>_<j>', or 'chunk_<j>' when the section has no number.
C8_ChunkIdNumbering ==
    (Chunked /\ Len(result) > 1) =>
        \A j \in 1..Len(result) :
            result[j].chunk_id =
                (IF IsNone(base_chunk.section_number)
                 THEN <<"c", "h", "u", "n", "k">>
                 ELSE base_chunk.section_number[1]) \o <<"_">> \o IntToStr(j)

\* C9: for a body longer than max_chunk_size, a single chunk keeps the section's
\* unmodified title and each of k > 1 chunks carries its part number j in 1..k.
C9_PartTitles ==
    (Chunked /\ Len(content) > max_chunk_size) =>
        /\ Len(result) = 1 => result[1].title = base_chunk.title
        /\ Len(result) > 1 =>
               \A j \in 1..Len(result) :
                   result[j].title =
                       base_chunk.title \o <<" ", "(", "B", "a", "g", "i", "a", "n", " ">>
                           \o IntToStr(j) \o <<")">>

C9_Witness ==
    /\ Chunked
    /\ Len(content) > max_chunk_size
    /\ Len(result) = 1
    /\ result[1].title = base_chunk.title

\* C10: for a fixed body and max_chunk_size a larger overlap_size never gives
\* fewer chunks than a smaller one.
C10_OverlapMonotone ==
    Chunked =>
        \A o \in 0..overlap_size :
            Len(chunk_long_content(content, base_chunk, max_chunk_size, o,
                                   document_metadata)) <= Len(result)

\* Overlap on, and strictly more chunks than without overlap.
C10_Witness ==
    /\ Chunked
    /\ overlap_size > 0
    /\ Len(result) > Len(chunk_long_content(content, base_chunk, max_chunk_size, 0,
                                            document_metadata))

----------------------------------------------------------------------------
(* create_metadata_chunk called on the records extract_metadata can build *)

MaxItems == 2

\* The points of the lettered and of the numbered list.
LetterPoints == <<"a", "b", "c", "d">>

NumberPoints == <<"1", "2", "3", "4">>

\* A list field with n items.
Items(points, n) == [k \in 1..n |-> [point |-> <<points[k]>>, text |-> <<"x", points[k]>>]]

\* A key that a scan leaves out or sets to one of the values.
Optional(key, values) == {EmptyDict} \cup {(key :> v) : v \in values}

\* The year pattern matches wherever the number pattern does.
NomorTahunPart ==
    {EmptyDict,
     [tahun |-> <<"2", "0", "2", "0">>],
     [nomor |-> <<"7", " ", "T", "A", "H", "U", "N", " ", "2", "0", "2", "0">>,
      tahun |-> <<"2", "0", "2", "0">>]}

DocumentTypes == {document_type_scan(<<>>), document_type_scan(MENTERI)}

\* The four signing keys are set together.
SigningPart ==
    {EmptyDict,
     [tempat_penetapan |-> <<"J">>, tanggal_penetapan |-> <<"1">>,
      jabatan_penandatangan |-> <<"M">>, nama_penandatangan |-> <<"N">>]}

\* The records extract_metadata returns. The title, when found, is not empty;
\* the purpose is empty when only white space follows its marker line; the
\* justification list is never empty and its pattern needs a following reference
\* or decision marker; the reference list is empty when its marker has no
\* numbered item with text; document_type is always set.
MetadataRecords ==
    {md \in {j @@ n @@ t @@ w @@ g @@ m @@ p @@ d @@ sg :
                 j \in Optional("judul", {<<"P", "e", "r", "a", "t", "u", "r", "a", "n", " ",
                                            "D", "a", "e", "r", "a", "h">>}),
                 n \in NomorTahunPart,
                 t \in Optional("tentang", {<<>>, <<"X">>}),
                 w \in Optional("menimbang", {Items(LetterPoints, k) : k \in 1..MaxItems}),
                 g \in Optional("mengingat", {Items(NumberPoints, k) : k \in 0..MaxItems}),
                 m \in Optional("memutuskan", {MEMUTUSKAN}),
                 p \in Optional("menetapkan", {<<"X">>}),
                 d \in DocumentTypes,
                 sg \in SigningPart} :
         "menimbang" \in DOMAIN md =>
             ("mengingat" \in DOMAIN md \/ "memutuskan" \in DOMAIN md)}

InitMeta ==
    /\ NoJobs
    /\ document_metadata \in MetadataRecords
    /\ pc = "meta_call"
    /\ result = <<>>
    /\ text = <<>>
    /\ max_chunk_size = MaxChunkSize
    /\ overlap_size = 0
    /\ sections = <<>>
    /\ sec_idx = 0
    /\ hierarchy_stack = <<>>
    /\ all_chunks = <<>>
    /\ origin = <<>>
    /\ content = <<>>
    /\ base_chunk = EmptyDict

\* all_chunks = [self.create_metadata_chunk()]
MetadataChunk ==
    /\ pc = "meta_call"
    /\ all_chunks' = FirstChunks(document_metadata)
    /\ pc' = "meta_done"
    /\ UNCHANGED <<text, max_chunk_size, overlap_size, document_metadata, sections,
                   sec_idx, hierarchy_stack, origin, content, base_chunk, result>>
    /\ UNCHANGED jobVars

NextMeta == MetadataChunk

SpecMeta == InitMeta /\ [][NextMeta]_vars

----------------------------------------------------------------------------
(* The service: job stores, request handlers and the background task *)

MinChunkSize == 100

DefaultChunkSize == 1500

DefaultOverlap == 100

\* ChunkingOptions()
DefaultOptions == [max_chunk_size |-> DefaultChunkSize, overlap_size |-> DefaultOverlap]

\* The smallest options the request model accepts.
SmallOptions == [max_chunk_size |-> MinChunkSize, overlap_size |-> 0]

\* for ... in sections of establish_hierarchy, as one call.
RECURSIVE HierarchyLoop(_, _, _)
HierarchyLoop(secs, k, stack) ==
    IF k > Len(secs) THEN secs
    ELSE LET updated == WithParent(stack, secs[k])
         IN HierarchyLoop([secs EXCEPT ![k] = updated], k + 1,
                          Append(PopStack(stack, secs[k].level), updated))

establish_hierarchy(secs) == HierarchyLoop(secs, 1, <<>>)

\* for section in sections of chunk_document, as one call.
RECURSIVE SectionLoop(_, _, _, _, _, _)
SectionLoop(secs, k, chunks, max, overlap, md) ==
    IF k > Len(secs) THEN chunks
    ELSE SectionLoop(secs, k + 1,
                     IF HasContent(secs[k])
                     THEN Extend(chunks, chunk_long_content(secs[k].content, secs[k],
                                                            max, overlap, md))
                     ELSE chunks,
                     max, overlap, md)

\* chunk_document(text) on a chunker built with the given options.
chunk_document(t, max, overlap) ==
    LET md == extract_metadata(t)
    IN SectionLoop(establish_hierarchy(split_into_sections(t)), 1, FirstChunks(md),
                   max, overlap, md)

legal_indicators ==
    {<<"P", "E", "R", "A", "T", "U", "R", "A", "N">>,
     <<"U", "N", "D", "A", "N", "G", "-", "U", "N", "D", "A", "N", "G">>,
     <<"K", "E", "P", "U", "T", "U", "S", "A", "N">>,
     <<"I", "N", "S", "T", "R", "U", "K", "S", "I">>,
     NOMOR, TAHUN,
     <<"T", "E", "N", "T", "A", "N", "G">>, PASAL}

\* str.upper()
UpperStr(s) == [i \in 1..Len(s) |-> Upper(s[i])]

\* validate_document_text returns without raising.
validate_document_text(t) ==
    /\ Strip(t) # <<>>
    /\ Cardinality({ind \in legal_indicators : Find(UpperStr(t), ind) > 0}) >= 3

\* The request model accepts the text (min_length) and the handler's check passes.
Accepted(t) == Len(t) >= 10 /\ validate_document_text(t)

\* Half the length of the long body below.
SentenceLen == 60

\* A body of two sentences, longer than the smallest max_chunk_size.
LongBody ==
    [i \in 1..SentenceLen |-> "a"] \o <<".", " ">> \o [i \in 1..SentenceLen |-> "b"]

\* One article with a short body.
T_SHORT == Join(<<L_NOMOR, L_PASAL, L_TEXT>>, NL)

\* A chapter without body, an article with a short body, one with a long body.
T_LONG ==
    Join(<<L_NOMOR, L_BAB, L_PASAL, L_TEXT, <<"P", "a", "s", "a", "l", " ", "2">>, LongBody>>,
         NL)

\* Not a legal document.
T_PLAIN == Join(<<L_TEXT, L_TEXT, L_CLAUSE>>, NL)

\* The requests clients send, each at most once.
Request ==
    [A |-> [job_id |-> Some("a"), text |-> T_LONG, options |-> Some(SmallOptions)],
     B |-> [job_id |-> None, text |-> T_LONG, options |-> Some(DefaultOptions)],
     C |-> [job_id |-> Some("a"), text |-> T_SHORT, options |-> None],
     D |-> [job_id |-> Some("b"), text |-> T_PLAIN, options |-> Some(DefaultOptions)]]

RequestNames == DOMAIN Request

RequestTexts == {Request[r].text : r \in RequestNames}

\* extract_metadata on each text a request carries, evaluated once.
ExtractedMetadata == [t \in RequestTexts |-> extract_metadata(t)]

\* split_into_sections and establish_hierarchy on each such text, evaluated once.
StructuredSections ==
    [t \in RequestTexts |-> establish_hierarchy(split_into_sections(t))]

\* The (section, max_chunk_size, overlap_size, document_metadata) a task can
\* pass to chunk_long_content.
ChunkCalls ==
    UNION {{<<StructuredSections[t][k], o.max_chunk_size, o.overlap_size, EmptyDict>> :
                k \in 1..Len(StructuredSections[t]),
                o \in {SmallOptions, DefaultOptions}} : t \in RequestTexts}

\* chunk_long_content on each such call, evaluated once.
SectionChunksOf ==
    [call \in ChunkCalls |->
         chunk_long_content(call[1].content, call[1], call[2], call[3], call[4])]

\* job_id = request.job_id or str(uuid.uuid4())
JobIdOf(r) == IF IsNone(Request[r].job_id) THEN "uuid-" \o r ELSE Request[r].job_id[1]

JobIds == {JobIdOf(r) : r \in RequestNames}

\* d[key] = value
Put(d, key, value) == (key :> value) @@ d

\* d.pop(key, None)
Pop(d, key) == [k \in DOMAIN d \ {key} |-> d[k]]

\* A float that is a whole number, and one that is a quotient.
Percent(n) == <<n, 1>>

ProgressUpdate(job_id, stage, progress, current_chunk, total_chunks, estimated_time) ==
    [job_id |-> job_id, stage |-> stage, progress |-> progress,
     current_chunk |-> current_chunk, total_chunks |-> total_chunks,
     estimated_time_remaining |-> estimated_time]

\* Variant of update_progress that only updates a record that is still there.
update_progress_IfPresent(jp, job_id, stage, progress, current_chunk, total_chunks) ==
    IF job_id \in DOMAIN jp
    THEN Put(jp, job_id,
             ProgressUpdate(job_id, stage, progress, current_chunk, total_chunks,
                            IF progress[1] > 0 THEN Some("elapsed") ELSE None))
    ELSE jp

\* update_progress: the estimate is a number derived from the clock when the
\* job has a record and progress > 0, and None otherwise.
update_progress(jp, job_id, stage, progress, current_chunk, total_chunks) ==
    Put(jp, job_id,
        ProgressUpdate(job_id, stage, progress, current_chunk, total_chunks,
                       IF job_id \in DOMAIN jp /\ progress[1] > 0
                       THEN Some("elapsed") ELSE None))

ChunkResponse(chunk) ==
    [level |-> chunk.level, title |-> chunk.title, content |-> chunk.content,
     chunk_type |-> chunk.chunk_type, section_number |-> chunk.section_number,
     parent_section |-> chunk.parent_section, content_length |-> Len(chunk.content)]

chunk_responses(chunks) == [k \in 1..Len(chunks) |-> ChunkResponse(chunks[k])]

\* chunk.chunk_type or 'unknown'
TypeKey(chunk) == IF IsNone(chunk.chunk_type) THEN "unknown" ELSE chunk.chunk_type[1]

RECURSIVE TotalChars(_)
TotalChars(chunks) ==
    IF chunks = <<>> THEN 0 ELSE Len(Head(chunks).content) + TotalChars(Tail(chunks))

summary(chunks) ==
    [total_chunks |-> Len(chunks),
     level_counts |->
         [l \in {IntToStr(chunks[k].level) : k \in 1..Len(chunks)} |->
              Cardinality({k \in 1..Len(chunks) : IntToStr(chunks[k].level) = l})],
     type_counts |->
         [t \in {TypeKey(chunks[k]) : k \in 1..Len(chunks)} |->
              Cardinality({k \in 1..Len(chunks) : TypeKey(chunks[k]) = t})],
     total_characters |-> TotalChars(chunks)]

CompletedResponse(job_id, metadata, chunks) ==
    [status |-> "completed", job_id |-> job_id, metadata |-> Some(metadata),
     chunks |-> Some(chunk_responses(chunks)), summary |-> Some(summary(chunks)),
     error |-> None]

FailedResponse(job_id, error) ==
    [status |-> "failed", job_id |-> job_id, metadata |-> None, chunks |-> None,
     summary |-> None, error |-> Some(error)]

\* str(e) of the AttributeError raised by options.max_chunk_size on None.
NoneTypeError == "'NoneType' object has no attribute 'max_chunk_size'"

\* Variant of NewChunker in which every task uses one module-level chunker.
NewChunker_Shared(r) == "A"

\* The identity of the chunker object a task constructs.
NewChunker(r) == r

\* The locals of a background task that was added but has not run yet.
ScheduledTask ==
    [pc |-> "scheduled", chunker |-> None, metadata |-> EmptyDict, sections |-> <<>>,
     i |-> 0, all_chunks |-> <<>>, error |-> None]

Free == running = None

Holds(r) == running = Some(r)

At(r, p) == r \in DOMAIN tasks /\ tasks[r].pc = p

\* The chunker object of task r.
ChunkerOf(r) == chunkers[tasks[r].chunker[1]]

InitJobs ==
    /\ NoJobs
    /\ pc = "service"
    /\ text = <<>>
    /\ max_chunk_size = DefaultChunkSize
    /\ overlap_size = DefaultOverlap
    /\ document_metadata = EmptyDict
    /\ sections = <<>>
    /\ sec_idx = 0
    /\ hierarchy_stack = <<>>
    /\ all_chunks = <<>>
    /\ origin = <<>>
    /\ content = <<>>
    /\ base_chunk = EmptyDict
    /\ result = <<>>

\* POST /chunk-document, answered with status "processing".
PostChunkDocument(r) ==
    /\ Free
    /\ r \notin DOMAIN tasks
    /\ Accepted(Request[r].text)
    /\ job_progress' = Put(job_progress, JobIdOf(r),
                           ProgressUpdate(JobIdOf(r), "queued", Percent(0), None, None,
                                          Some("estimate")))
    /\ tasks' = Put(tasks, r, ScheduledTask)
    /\ deleted' = deleted \ {JobIdOf(r)}
    /\ UNCHANGED <<job_results, chunkers, running>>
    /\ UNCHANGED chunkVars

\* DELETE /job/{job_id}
delete_job(job_id) ==
    /\ Free
    /\ job_progress' = Pop(job_progress, job_id)
    /\ job_results' = Pop(job_results, job_id)
    /\ deleted' = deleted \cup {job_id}
    /\ UNCHANGED <<tasks, chunkers, running>>
    /\ UNCHANGED chunkVars

\* The background task starts to run: lines 130-133.
TaskStart(r) ==
    /\ Free
    /\ At(r, "scheduled")
    /\ running' = Some(r)
    /\ job_progress' = update_progress(job_progress, JobIdOf(r), "validation",
                                       Percent(5), None, None)
    /\ tasks' = [tasks EXCEPT ![r].pc = "init"]
    /\ UNCHANGED <<job_results, chunkers, deleted>>
    /\ UNCHANGED chunkVars

\* Lines 136-141.
TaskInitChunker(r) ==
    /\ Holds(r)
    /\ At(r, "init")
    /\ ~IsNone(Request[r].options)
    /\ chunkers' = Put(chunkers, NewChunker(r),
                       [max_chunk_size |-> Request[r].options[1].max_chunk_size,
                        overlap_size |-> Request[r].options[1].overlap_size,
                        document_metadata |-> EmptyDict])
    /\ job_progress' = update_progress(job_progress, JobIdOf(r), "parsing",
                                       Percent(15), None, None)
    /\ tasks' = [tasks EXCEPT ![r].pc = "extract", ![r].chunker = Some(NewChunker(r))]
    /\ UNCHANGED <<job_results, running, deleted>>
    /\ UNCHANGED chunkVars

\* Line 137 raises when the request carried "options": null.
TaskInitChunkerRaises(r) ==
    /\ Holds(r)
    /\ At(r, "init")
    /\ IsNone(Request[r].options)
    /\ tasks' = [tasks EXCEPT ![r].pc = "except", ![r].error = Some(NoneTypeError)]
    /\ UNCHANGED <<job_progress, job_results, chunkers, running, deleted>>
    /\ UNCHANGED chunkVars

\* Lines 144-146: the record goes to the local `metadata`, the chunker's
\* document_metadata is not assigned.
TaskExtractMetadata(r) ==
    /\ Holds(r)
    /\ At(r, "extract")
    /\ tasks' = [tasks EXCEPT ![r].pc = "split",
                              ![r].metadata = ExtractedMetadata[Request[r].text]]
    /\ job_progress' = update_progress(job_progress, JobIdOf(r), "parsing",
                                       Percent(25), None, None)
    /\ UNCHANGED <<job_results, chunkers, running, deleted>>
    /\ UNCHANGED chunkVars

\* Lines 149-152.
TaskSplit(r) ==
    /\ Holds(r)
    /\ At(r, "split")
    /\ tasks' = [tasks EXCEPT
                     ![r].pc = "metadata_chunk",
                     ![r].sections = StructuredSections[Request[r].text]]
    /\ job_progress' = update_progress(job_progress, JobIdOf(r), "chunking",
                                       Percent(35), None, None)
    /\ UNCHANGED <<job_results, chunkers, running, deleted>>
    /\ UNCHANGED chunkVars

\* Lines 155-158.
TaskCreateMetadataChunk(r) ==
    /\ Holds(r)
    /\ At(r, "metadata_chunk")
    /\ tasks' = [tasks EXCEPT ![r].pc = "loop", ![r].i = 1,
                              ![r].all_chunks = FirstChunks(ChunkerOf(r).document_metadata)]
    /\ job_progress' = update_progress(job_progress, JobIdOf(r), "chunking", Percent(40),
                                       Some(0), Some(Len(tasks[r].sections)))
    /\ UNCHANGED <<job_results, chunkers, running, deleted>>
    /\ UNCHANGED chunkVars

\* Lines 162-174 for a section with content, up to the suspension in sleep.
TaskChunkSection(r) ==
    /\ Holds(r)
    /\ At(r, "loop")
    /\ tasks[r].i <= Len(tasks[r].sections)
    /\ HasContent(tasks[r].sections[tasks[r].i])
    /\ LET section == tasks[r].sections[tasks[r].i]
           total_sections == Len(tasks[r].sections)
           section_chunks ==
               SectionChunksOf[<<section, ChunkerOf(r).max_chunk_size,
                                 ChunkerOf(r).overlap_size,
                                 ChunkerOf(r).document_metadata>>]
       IN /\ tasks' = [tasks EXCEPT
                           ![r].pc = "sleep",
                           ![r].all_chunks = Extend(tasks[r].all_chunks, section_chunks)]
          /\ job_progress' =
                 update_progress(job_progress, JobIdOf(r), "chunking",
                                 <<40 * total_sections + 50 * tasks[r].i, total_sections>>,
                                 Some(tasks[r].i), Some(total_sections))
    /\ running' = None
    /\ UNCHANGED <<job_results, chunkers, deleted>>
    /\ UNCHANGED chunkVars

\* asyncio.sleep(0.1) returns and the loop moves to the next section.
TaskWake(r) ==
    /\ Free
    /\ At(r, "sleep")
    /\ running' = Some(r)
    /\ tasks' = [tasks EXCEPT ![r].pc = "loop", ![r].i = @ + 1]
    /\ UNCHANGED <<job_progress, job_results, chunkers, deleted>>
    /\ UNCHANGED chunkVars

\* Line 162 for a section without content.
TaskSkipSection(r) ==
    /\ Holds(r)
    /\ At(r, "loop")
    /\ tasks[r].i <= Len(tasks[r].sections)
    /\ ~HasContent(tasks[r].sections[tasks[r].i])
    /\ tasks' = [tasks EXCEPT ![r].i = @ + 1]
    /\ UNCHANGED <<job_progress, job_results, chunkers, running, deleted>>
    /\ UNCHANGED chunkVars

\* Line 176.
TaskFinalize(r) ==
    /\ Holds(r)
    /\ At(r, "loop")
    /\ tasks[r].i > Len(tasks[r].sections)
    /\ job_progress' = update_progress(job_progress, JobIdOf(r), "finalizing",
                                       Percent(95), None, None)
    /\ tasks' = [tasks EXCEPT ![r].pc = "store"]
    /\ UNCHANGED <<job_results, chunkers, running, deleted>>
    /\ UNCHANGED chunkVars

\* Lines 179-219.
TaskStoreResult(r) ==
    /\ Holds(r)
    /\ At(r, "store")
    /\ job_results' = Put(job_results, JobIdOf(r),
                          CompletedResponse(JobIdOf(r), tasks[r].metadata,
                                            tasks[r].all_chunks))
    /\ tasks' = [tasks EXCEPT ![r].pc = "completed"]
    /\ UNCHANGED <<job_progress, chunkers, running, deleted>>
    /\ UNCHANGED chunkVars

\* Line 221, after which the task has returned.
TaskCompleted(r) ==
    /\ Holds(r)
    /\ At(r, "completed")
    /\ job_progress' = update_progress(job_progress, JobIdOf(r), "completed",
                                       Percent(100), None, None)
    /\ tasks' = [tasks EXCEPT ![r].pc = "done"]
    /\ running' = None
    /\ UNCHANGED <<job_results, chunkers, deleted>>
    /\ UNCHANGED chunkVars

\* Lines 223-229.
TaskExcept(r) ==
    /\ Holds(r)
    /\ At(r, "except")
    /\ job_results' = Put(job_results, JobIdOf(r),
                          FailedResponse(JobIdOf(r), tasks[r].error[1]))
    /\ tasks' = [tasks EXCEPT ![r].pc = "failed"]
    /\ UNCHANGED <<job_progress, chunkers, running, deleted>>
    /\ UNCHANGED chunkVars

\* Line 230, after which the task has returned.
TaskFailed(r) ==
    /\ Holds(r)
    /\ At(r, "failed")
    /\ job_progress' = update_progress(job_progress, JobIdOf(r), "failed",
                                       Percent(0), None, None)
    /\ tasks' = [tasks EXCEPT ![r].pc = "done"]
    /\ running' = None
    /\ UNCHANGED <<job_results, chunkers, deleted>>
    /\ UNCHANGED chunkVars

\* One step of process_document_async for request r.
process_document_async(r) ==
    \/ TaskStart(r)
    \/ TaskInitChunker(r)
    \/ TaskInitChunkerRaises(r)
    \/ TaskExtractMetadata(r)
    \/ TaskSplit(r)
    \/ TaskCreateMetadataChunk(r)
    \/ TaskChunkSection(r)
    \/ TaskWake(r)
    \/ TaskSkipSection(r)
    \/ TaskFinalize(r)
    \/ TaskStoreResult(r)
    \/ TaskCompleted(r)
    \/ TaskExcept(r)
    \/ TaskFailed(r)

NextJobs ==
    \/ \E r \in RequestNames : PostChunkDocument(r)
    \/ \E job_id \in JobIds : delete_job(job_id)
    \/ \E r \in RequestNames : process_document_async(r)

SpecJobs == InitJobs /\ [][NextJobs]_vars

\* The event loop runs every task that is ready: a started task runs to its next
\* suspension, a task that is scheduled or asleep is resumed.
FairSpecJobs == SpecJobs /\ \A r \in RequestNames : WF_vars(process_document_async(r))

----------------------------------------------------------------------------
(* Properties of the level-1 chunk *)

Rendered == pc = "meta_done"

\* The lines of the level-1 chunk's content.
ContentLines == Split(all_chunks[1].content, NL)

StartsWith(s, p) == Len(s) >= Len(p) /\ SubSeq(s, 1, Len(p)) = p

\* The lines that carry a label: not blank and not an indented item.
LabelLines ==
    {i \in 1..Len(ContentLines) :
         ContentLines[i] # <<>> /\ ~StartsWith(ContentLines[i], <<" ", " ">>)}

ItemLineCount ==
    Cardinality({i \in 1..Len(ContentLines) : StartsWith(ContentLines[i], <<" ", " ">>)})

\* C12 as stated: every field present in the metadata record has its labeled
\* line, an absent field has none, and the content is empty exactly when the
\* record has no field.
C12_EveryPresentFieldHasLine ==
    Rendered =>
        /\ Cardinality(LabelLines) = Cardinality(DOMAIN document_metadata)
        /\ (all_chunks[1].content = <<>>) <=> (DOMAIN document_metadata = {})

ScalarLabel ==
    [judul |-> <<"J", "u", "d", "u", "l">>,
     nomor |-> <<"N", "o", "m", "o", "r">>,
     tahun |-> <<"T", "a", "h", "u", "n">>,
     tentang |-> <<"T", "e", "n", "t", "a", "n", "g">>]

ListLabel ==
    [menimbang |-> <<"M", "e", "n", "i", "m", "b", "a", "n", "g", ":">>,
     mengingat |-> <<"M", "e", "n", "g", "i", "n", "g", "a", "t", ":">>]

\* The field is in the record and is not the empty string or the empty list.
NonEmptyField(f) == f \in DOMAIN document_metadata /\ document_metadata[f] # <<>>

\* The item line of a {point, text} pair.
ItemLine(item) == <<" ", " ">> \o item.point \o <<".", " ">> \o item.text

\* C12, amended: the content has one labeled line for each of the six fields
\* judul, nomor, tahun, tentang, menimbang, mengingat that is present and not
\* empty, a list's label being followed by one indented line per item in order,
\* and no other labeled or item line; it is empty exactly when none of the six
\* is present and non-empty.
C12_HeaderFieldsHaveLines ==
    Rendered =>
        /\ \A f \in DOMAIN ScalarLabel :
               Cardinality({i \in LabelLines :
                                StartsWith(ContentLines[i], ScalarLabel[f] \o <<":", " ">>)})
                   = (IF NonEmptyField(f) THEN 1 ELSE 0)
        /\ \A f \in DOMAIN ScalarLabel :
               NonEmptyField(f) =>
                   \E i \in LabelLines :
                       ContentLines[i] = ScalarLabel[f] \o <<":", " ">> \o document_metadata[f]
        /\ \A f \in DOMAIN ListLabel :
               Cardinality({i \in LabelLines : ContentLines[i] = ListLabel[f]})
                   = (IF NonEmptyField(f) THEN 1 ELSE 0)
        /\ \A f \in DOMAIN ListLabel :
               NonEmptyField(f) =>
                   \E i \in LabelLines :
                       /\ ContentLines[i] = ListLabel[f]
                       /\ i + Len(document_metadata[f]) <= Len(ContentLines)
                       /\ \A k \in 1..Len(document_metadata[f]) :
                              ContentLines[i + k] = ItemLine(document_metadata[f][k])
        /\ Cardinality(LabelLines) =
               Cardinality({f \in DOMAIN ScalarLabel \cup DOMAIN ListLabel : NonEmptyField(f)})
        /\ ItemLineCount =
               (IF NonEmptyField("menimbang") THEN Len(document_metadata["menimbang"]) ELSE 0)
               + (IF NonEmptyField("mengingat") THEN Len(document_metadata["mengingat"]) ELSE 0)
        /\ (all_chunks[1].content = <<>>) <=>
               (\A f \in DOMAIN ScalarLabel \cup DOMAIN ListLabel : ~NonEmptyField(f))

\* Scalar and list fields are rendered, an empty reference list is present and
\* fields outside the six are in the record.
C12_Witness ==
    /\ Rendered
    /\ NonEmptyField("judul")
    /\ NonEmptyField("nomor")
    /\ "tentang" \in DOMAIN document_metadata /\ ~NonEmptyField("tentang")
    /\ NonEmptyField("menimbang") /\ Len(document_metadata["menimbang"]) = 2
    /\ "mengingat" \in DOMAIN document_metadata /\ ~NonEmptyField("mengingat")
    /\ "tempat_penetapan" \in DOMAIN document_metadata
    /\ Cardinality(LabelLines) = 4
    /\ ItemLineCount = 2

----------------------------------------------------------------------------
(* Properties of the service *)

\* The task of request r has run its loop over the sections to the end.
Assembled(r) == At(r, "store") \/ At(r, "completed")

\* C11 as stated: the chunk sequence the staged pipeline of
\* process_document_async has assembled equals what chunk_document returns for
\* the same text and options, level-1 chunk content and metadata included.
C11_StagedEqualsSingleCall ==
    \A r \in RequestNames :
        Assembled(r) =>
            tasks[r].all_chunks =
                chunk_document(Request[r].text, Request[r].options[1].max_chunk_size,
                               Request[r].options[1].overlap_size)

\* No other accepted request uses the job id of r.
Independent(r) == \A q \in DOMAIN tasks \ {r} : JobIdOf(q) # JobIdOf(r)

\* What process_document_async stores for request r when nothing else runs: a
\* fresh chunker with the request's options and an empty document_metadata.
AloneResult(r) ==
    IF IsNone(Request[r].options)
    THEN FailedResponse(JobIdOf(r), NoneTypeError)
    ELSE CompletedResponse(
             JobIdOf(r), extract_metadata(Request[r].text),
             SectionLoop(establish_hierarchy(split_into_sections(Request[r].text)), 1,
                         FirstChunks(EmptyDict), Request[r].options[1].max_chunk_size,
                         Request[r].options[1].overlap_size, EmptyDict))

\* C13: under every interleaving of the tasks at their suspension points, the
\* metadata and chunks stored as the result of a job with its own job id are
\* the ones the job produces when it runs alone.
C13_JobsDoNotInterfere ==
    \A r \in DOMAIN tasks :
        (At(r, "done") /\ Independent(r) /\ JobIdOf(r) \in DOMAIN job_results)
        => job_results[JobIdOf(r)] = AloneResult(r)

\* Two jobs with different options have both finished and kept their results.
C13_Witness ==
    /\ At("A", "done") /\ At("B", "done")
    /\ Independent("A") /\ Independent("B")
    /\ JobIdOf("A") \in DOMAIN job_results
    /\ JobIdOf("B") \in DOMAIN job_results
    /\ Len(job_results[JobIdOf("A")].chunks[1]) = 4
    /\ Len(job_results[JobIdOf("B")].chunks[1]) = 3

\* The job has a result and a progress record in the same terminal stage.
Terminal(job_id) ==
    /\ job_id \in DOMAIN job_results
    /\ job_results[job_id].status \in {"completed", "failed"}
    /\ job_id \in DOMAIN job_progress
    /\ job_progress[job_id].stage = job_results[job_id].status

Finished(r) == At(r, "done") /\ Terminal(JobIdOf(r))

FinishedFailed(r) ==
    /\ Finished(r)
    /\ job_results[JobIdOf(r)] = FailedResponse(JobIdOf(r), NoneTypeError)

\* A task that has returned never runs again.
NoRetry == \A r \in DOMAIN tasks : tasks[r].pc = "done" => tasks'[r].pc = "done"

\* C14: when the event loop runs every ready task, each accepted job reaches a
\* state with a result of status completed or failed and a progress record in
\* the same stage; a task in which an exception was raised ends with the
\* failed result carrying the error message; a task that returned is not rerun.
C14_EveryJobTerminates ==
    /\ \A r \in RequestNames : At(r, "scheduled") ~> Finished(r)
    /\ \A r \in RequestNames : At(r, "except") ~> FinishedFailed(r)
    /\ [][NoRetry]_vars

\* One job has completed and another one has failed.
C14_Witness ==
    /\ Finished("B")
    /\ job_results[JobIdOf("B")].status = "completed"
    /\ FinishedFailed("C")

\* C19 as stated: a job id that was deleted (and not posted again) has no
\* entry in job_progress or job_results in any later state.
C19_DeletedStaysDeleted ==
    \A job_id \in deleted :
        job_id \notin DOMAIN job_progress /\ job_id \notin DOMAIN job_results

----------------------------------------------------------------------------
(* Properties of establish_hierarchy, split_into_sections and the re-chunking *)

InHierarchy == pc = "hierarchy"

\* C15: at every step of establish_hierarchy the levels on the stack increase
\* strictly from bottom to top, so with levels in {2,3} it never holds more
\* than two entries, and a section that was just pushed is the top.
C15_StackIsAncestorChain ==
    InHierarchy =>
        /\ \A k \in 1..(Len(hierarchy_stack) - 1) :
               hierarchy_stack[k].level < hierarchy_stack[k + 1].level
        /\ Len(hierarchy_stack) <= 2
        /\ sec_idx > 1 =>
               /\ hierarchy_stack # <<>>
               /\ hierarchy_stack[Len(hierarchy_stack)] = sections[sec_idx - 1]

\* Three sections were pushed, one of them was popped again.
C15_Witness ==
    /\ InHierarchy
    /\ sec_idx = 4
    /\ Len(hierarchy_stack) = 2
    /\ sections[2].level = 3

\* C16 as stated: with overlap_size = 0 and every sentence-like unit no longer
\* than max_chunk_size, every emitted chunk is at most max_chunk_size long.
C16_ChunksWithinSize ==
    (/\ Chunked
     /\ overlap_size = 0
     /\ \A u \in 1..Len(SplitSentences(content)) :
            Len(SplitSentences(content)[u]) <= max_chunk_size)
    => \A j \in 1..Len(result) : Len(result[j].content) <= max_chunk_size

SplitDone == pc \in {"hierarchy", "chunk", "done"}

\* The 0-based indices of the structural lines of a list of lines.
HeadingLines(lines) ==
    {i \in 0..(Len(lines) - 1) : identify_structure_level(lines[i + 1]).level > 0}

\* The k-th smallest member of a set of numbers.
RECURSIVE Nth(_, _)
Nth(S, k) ==
    LET m == CHOOSE x \in S : \A y \in S : x <= y
    IN IF k = 1 THEN m ELSE Nth(S \ {m}, k - 1)

\* The non-blank lines with 0-based index strictly between lo and hi.
RECURSIVE NonBlankBetween(_, _, _)
NonBlankBetween(lines, lo, hi) ==
    IF lo + 1 >= hi THEN <<>>
    ELSE (IF Strip(lines[lo + 2]) # <<>> THEN <<lines[lo + 2]>> ELSE <<>>)
         \o NonBlankBetween(lines, lo + 1, hi)

\* C17: split_into_sections returns one section per structural line, in line
\* order; a section's body is the non-blank lines strictly between its heading
\* and the next structural line (or the end), lines before the first heading
\* belong to no section, a closed section ends on the line before the next
\* heading and the last section on the last line index.
C17_SectionsFollowHeadings ==
    SplitDone =>
        LET lines == Split(text, NL)
            H == HeadingLines(lines)
            NextStart(k) == IF k < Cardinality(H) THEN Nth(H, k + 1) ELSE Len(lines)
        IN /\ Len(sections) = Cardinality(H)
           /\ \A k \in 1..Len(sections) :
                  /\ sections[k].start_position = Nth(H, k)
                  /\ sections[k].raw_line = lines[Nth(H, k) + 1]
                  /\ sections[k].content =
                         Strip(Join(NonBlankBetween(lines, Nth(H, k), NextStart(k)), NL))
                  /\ sections[k].end_position = NextStart(k) - 1

\* Text before the first heading, a body with a blank line in it, two sections.
C17_Witness ==
    /\ SplitDone
    /\ Len(sections) = 2
    /\ sections[1].start_position = 1
    /\ sections[1].end_position = 3
    /\ sections[1].content = L_TEXT
    /\ sections[2].end_position = 4

\* The chunk bodies cs are the units, in order, each unit in exactly one body.
RECURSIVE IsPartition(_, _)
IsPartition(cs, units) ==
    IF cs = <<>> THEN units = <<>>
    ELSE \E k \in 1..Len(units) :
             /\ cs[1] = Join(SubSeq(units, 1, k), <<" ">>)
             /\ IsPartition(Tail(cs), SubSeq(units, k + 1, Len(units)))

\* C18: for a body longer than max_chunk_size and overlap_size = 0 every
\* sentence-like unit is in exactly one emitted chunk, the chunks hold the
\* units in their original order, and there are between 1 and as many chunks
\* as units.
C18_NothingLostOrReordered ==
    (Chunked /\ Len(content) > max_chunk_size /\ overlap_size = 0) =>
        LET units == SplitSentences(content)
        IN /\ Len(result) >= 1
           /\ Len(result) <= Len(units)
           /\ IsPartition([j \in 1..Len(result) |-> result[j].content], units)

\* Several chunks, one of which holds more than one unit.
C18_Witness ==
    /\ Chunked
    /\ Len(content) > max_chunk_size
    /\ overlap_size = 0
    /\ Len(result) >= 2
    /\ Len(result) < Len(SplitSentences(content))

====
